---- MODULE Spec2Model ----
(***************************************************************************)
(* SlideSense backend (src/backend.py): the PPTEvaluator scoring engine,   *)
(* the Database submission store and the request handlers that use them.   *)
(*                                                                         *)
(* Representation.                                                         *)
(*  - A Python str literal is a TLA+ string; where the code works on its   *)
(*    characters, Chars gives them as a sequence of one-character strings. *)
(*    A str the code builds (str(n), an f-string) is the sequence of its   *)
(*    characters, a literal piece of a template counting as one element.   *)
(*  - A factor is an integer number of thousandths (0.85 is 850); a weight *)
(*    is an integer number of hundredths; final_score before rounding is   *)
(*    an integer number of thousandths of a point (98.0 is 98000); a value *)
(*    rounded to one decimal is an integer number of tenths (98.0 is 980). *)
(*  - A Python dict is a function from field names to values.              *)
(***************************************************************************)
EXTENDS Integers, Sequences, FiniteSets, TLC

VARIABLES
    presentations,  \* db.data['presentations']
    data_file,      \* data.json as _save_data last wrote it
    req,            \* the call or request last handled, with its inputs
    resp,           \* what it returned
    calls           \* the evaluator and Database calls it made, in order

vars == <<presentations, data_file, req, resp, calls>>

(***************************************************************************)
(* Bounds of the model.                                                    *)
(***************************************************************************)
MaxUploads == 1

MaxPool == 3

(***************************************************************************)
(* Python str operations.                                                  *)
(***************************************************************************)
UpperChars == <<"A","B","C","D","E","F","G","H","I","J","K","L","M","N","O","P","Q","R","S","T","U","V","W","X","Y","Z">>

LowerChars == <<"a","b","c","d","e","f","g","h","i","j","k","l","m","n","o","p","q","r","s","t","u","v","w","x","y","z">>

DigitChars == <<"0","1","2","3","4","5","6","7","8","9">>

Range(s) == {s[i] : i \in DOMAIN s}

UpperSet == Range(UpperChars)

AlnumSet == Range(UpperChars) \cup Range(LowerChars) \cup Range(DigitChars)

\* str.lower() on the upper-case letters
LowerMap == [c \in UpperSet |-> LowerChars[CHOOSE i \in DOMAIN UpperChars : UpperChars[i] = c]]

IsUpperChar(c) == c \in UpperSet

IsAlnumChar(c) == c \in AlnumSet

\* str.lower() on one character
LowerChar(c) == IF IsUpperChar(c) THEN LowerMap[c] ELSE c

\* the characters of each str literal of the model (TLC cannot index a string)
Chars ==
    ("" :> <<>>)
    @@ ("AI_Machine_Learning_Presentation.pptx" :> <<"A","I","_","M","a","c","h","i","n","e","_","L","e","a","r","n","i","n","g","_","P","r","e","s","e","n","t","a","t","i","o","n",".","p","p","t","x">>)
    @@ ("Power_Systems_Analysis.pptx" :> <<"P","o","w","e","r","_","S","y","s","t","e","m","s","_","A","n","a","l","y","s","i","s",".","p","p","t","x">>)
    @@ ("Thermodynamics_Project.pptx" :> <<"T","h","e","r","m","o","d","y","n","a","m","i","c","s","_","P","r","o","j","e","c","t",".","p","p","t","x">>)
    @@ ("Database_Management_Systems.pptx" :> <<"D","a","t","a","b","a","s","e","_","M","a","n","a","g","e","m","e","n","t","_","S","y","s","t","e","m","s",".","p","p","t","x">>)
    @@ ("Structural_Engineering.pptx" :> <<"S","t","r","u","c","t","u","r","a","l","_","E","n","g","i","n","e","e","r","i","n","g",".","p","p","t","x">>)
    @@ ("Quantum_Physics_Research.pptx" :> <<"Q","u","a","n","t","u","m","_","P","h","y","s","i","c","s","_","R","e","s","e","a","r","c","h",".","p","p","t","x">>)
    @@ ("notes.ppt" :> <<"n","o","t","e","s",".","p","p","t">>)
    @@ ("Final-Report2024" :> <<"F","i","n","a","l","-","R","e","p","o","r","t","2","0","2","4">>)
    @@ ("Deck1" :> <<"D","e","c","k","1">>)
    @@ ("my_visual_design_talk" :> <<"m","y","_","v","i","s","u","a","l","_","d","e","s","i","g","n","_","t","a","l","k">>)
    @@ ("Annual_Departmental_Research_Symposium_Final_Presentation_v2.pptx" :> <<"A","n","n","u","a","l","_","D","e","p","a","r","t","m","e","n","t","a","l","_","R","e","s","e","a","r","c","h","_","S","y","m","p","o","s","i","u","m","_","F","i","n","a","l","_","P","r","e","s","e","n","t","a","t","i","o","n","_","v","2",".","p","p","t","x">>)
    @@ ("Rahul Kumar" :> <<"R","a","h","u","l"," ","K","u","m","a","r">>)
    @@ ("Priya Sharma" :> <<"P","r","i","y","a"," ","S","h","a","r","m","a">>)
    @@ ("Amit Patel" :> <<"A","m","i","t"," ","P","a","t","e","l">>)
    @@ ("Sneha Reddy" :> <<"S","n","e","h","a"," ","R","e","d","d","y">>)
    @@ ("Vikram Singh" :> <<"V","i","k","r","a","m"," ","S","i","n","g","h">>)
    @@ ("Anjali Gupta" :> <<"A","n","j","a","l","i"," ","G","u","p","t","a">>)
    @@ ("Meera Rahul" :> <<"M","e","e","r","a"," ","R","a","h","u","l">>)
    @@ ("21CS001" :> <<"2","1","C","S","0","0","1">>)
    @@ ("21EE015" :> <<"2","1","E","E","0","1","5">>)
    @@ ("21ME023" :> <<"2","1","M","E","0","2","3">>)
    @@ ("21CS045" :> <<"2","1","C","S","0","4","5">>)
    @@ ("21CE012" :> <<"2","1","C","E","0","1","2">>)
    @@ ("21PH008" :> <<"2","1","P","H","0","0","8">>)
    @@ ("21cs077" :> <<"2","1","c","s","0","7","7">>)
    @@ ("RAHUL" :> <<"R","A","H","U","L">>)
    @@ ("21cs" :> <<"2","1","c","s">>)
    @@ ("xyz" :> <<"x","y","z">>)
    @@ ("Rahul Dev" :> <<"R","a","h","u","l"," ","D","e","v">>)
    @@ ("22ME101" :> <<"2","2","M","E","1","0","1">>)

\* str.lower()
StrLower(s) == [i \in 1..Len(s) |-> LowerChar(s[i])]

\* sub in s
StrContains(sub, s) ==
    \E i \in 0..(Len(s) - Len(sub)) : \A j \in 1..Len(sub) : s[i + j] = sub[j]

\* c in s, for a single character c
HasChar(c, s) == \E i \in DOMAIN s : s[i] = c

\* len(s.split(sep)) for a single-character separator
SplitLen(s, sep) == Cardinality({i \in DOMAIN s : s[i] = sep}) + 1

\* s.isalnum(): non-empty and every character alphanumeric
IsAlnum(s) == Len(s) > 0 /\ \A i \in DOMAIN s : IsAlnumChar(s[i])

\* str(n) for n >= 0
RECURSIVE IntToStr(_)
IntToStr(n) ==
    IF n < 10 THEN <<DigitChars[n + 1]>>
    ELSE Append(IntToStr(n \div 10), DigitChars[(n % 10) + 1])

Min2(a, b) == IF a < b THEN a ELSE b

Max2(a, b) == IF a > b THEN a ELSE b

\* round(x, 1) of a value given in thousandths, as tenths. An exact tie is sent to
\* the even tenth; the float the code rounds may then fall on either side, and the
\* draws of this model, none of which ends in 5, produce no tie.
Round1(m) ==
    LET q == m \div 100
        r == m % 100
    IN  IF r > 50 \/ (r = 50 /\ q % 2 = 1) THEN q + 1 ELSE q

(***************************************************************************)
(* PPTEvaluator.                                                           *)
(***************************************************************************)
StructureWords ==
    { <<"p","r","e","s","e","n","t","a","t","i","o","n">>,
      <<"p","r","o","j","e","c","t">>,
      <<"r","e","p","o","r","t">>,
      <<"a","n","a","l","y","s","i","s">> }

DesignKeywords ==
    { <<"d","e","s","i","g","n">>,
      <<"v","i","s","u","a","l">>,
      <<"c","r","e","a","t","i","v","e">>,
      <<"p","r","e","s","e","n","t","a","t","i","o","n">> }

\* filename[0] raises IndexError on the empty string
EvaluateRaises(filename) == Len(Chars[filename]) = 0

AnalyzeFilename(filename) ==
    LET name == Chars[filename]
        s0 == 700
        s1 == IF HasChar("_", name) \/ HasChar("-", name) THEN s0 + 100 ELSE s0
        s2 == IF IsUpperChar(name[1]) THEN s1 + 100 ELSE s1
        s3 == IF 15 <= Len(name) /\ Len(name) <= 50 THEN s2 + 100 ELSE s2
    IN  Min2(1000, s3)

\* variant: the band edges compared strictly
AnalyzeSlideCountStrict(slide_count) ==
    IF slide_count = 0 THEN 700
    ELSE IF 15 < slide_count /\ slide_count < 25 THEN 1000
    ELSE IF (10 < slide_count /\ slide_count <= 15) \/ (25 <= slide_count /\ slide_count < 30) THEN 900
    ELSE IF (5 < slide_count /\ slide_count <= 10) \/ (30 <= slide_count /\ slide_count < 40) THEN 800
    ELSE 700

\* variant: a count that was not provided scored as nothing
AnalyzeSlideCountZeroUnknown(slide_count) ==
    IF slide_count = 0 THEN 0
    ELSE IF 15 <= slide_count /\ slide_count <= 25 THEN 1000
    ELSE IF (10 <= slide_count /\ slide_count < 15) \/ (25 < slide_count /\ slide_count <= 30) THEN 900
    ELSE IF (5 <= slide_count /\ slide_count < 10) \/ (30 < slide_count /\ slide_count <= 40) THEN 800
    ELSE 700

AnalyzeSlideCount(slide_count) ==
    IF slide_count = 0 THEN 700
    ELSE IF 15 <= slide_count /\ slide_count <= 25 THEN 1000
    ELSE IF (10 <= slide_count /\ slide_count < 15) \/ (25 < slide_count /\ slide_count <= 30) THEN 900
    ELSE IF (5 <= slide_count /\ slide_count < 10) \/ (30 < slide_count /\ slide_count <= 40) THEN 800
    ELSE 700

\* variant: the base 0.85 left out of the sum
AnalyzeDepartmentNoBase(department, draw) == draw

\* 0.85 + np.random.uniform(0, 0.1); draw is the uniform variate, in thousandths
AnalyzeDepartment(department, draw) == 850 + draw

CalculateStructureScore(filename, slide_count) ==
    LET name == Chars[filename]
        b0 == 800
        lower == StrLower(name)
        b1 == IF \E word \in StructureWords : StrContains(word, lower)
              THEN b0 + 100 ELSE b0
        b2 == IF 15 <= slide_count /\ slide_count <= 25 THEN b1 + 100 ELSE b1
    IN  Min2(1000, b2)

CalculateDesignScore(filename) ==
    LET name == Chars[filename]
        b0 == 750
        b1 == IF IsUpperChar(name[1]) /\ (HasChar("_", name) \/ IsAlnum(name))
              THEN b0 + 150 ELSE b0
        lower == StrLower(name)
        b2 == IF \E kw \in DesignKeywords : StrContains(kw, lower)
              THEN b1 + 100 ELSE b1
    IN  Min2(1000, b2)

CalculateClarityScore(filename) ==
    LET name == Chars[filename]
        b0 == 800
        b1 == IF SplitLen(name, "_") >= 2 \/ SplitLen(name, "-") >= 2
              THEN b0 + 100 ELSE b0
        b2 == IF 20 <= Len(name) /\ Len(name) <= 40 THEN b1 + 100 ELSE b1
    IN  Min2(1000, b2)

Factors(filename, slide_count, department, draw) ==
    [ filename_quality         |-> AnalyzeFilename(filename),
      content_structure        |-> CalculateStructureScore(filename, slide_count),
      visual_design            |-> CalculateDesignScore(filename),
      completeness             |-> AnalyzeSlideCount(slide_count),
      clarity                  |-> CalculateClarityScore(filename),
      relevance                |-> AnalyzeDepartment(department, draw),
      slide_count_optimization |-> AnalyzeSlideCount(slide_count) ]

Weights ==
    [ filename_quality  |-> 15,
      content_structure |-> 25,
      visual_design     |-> 20,
      completeness      |-> 15,
      clarity           |-> 15,
      relevance         |-> 10 ]

RECURSIVE SumOver(_, _)
SumOver(f, keys) ==
    IF keys = {} THEN 0
    ELSE LET k == CHOOSE x \in keys : TRUE
         IN  f[k] + SumOver(f, keys \ {k})

\* weighted_score * 100, in thousandths of a point
WeightedScore(factors) ==
    SumOver([k \in DOMAIN Weights |-> factors[k] * Weights[k]], DOMAIN Weights)

\* variant: the upper clamp left out
ClampScoreNoCap(final_score) == Max2(60000, final_score)

\* max(60, min(98, final_score))
ClampScore(final_score) == Max2(60000, Min2(98000, final_score))

\* variant: the completeness test moved ahead of the slide-count test
GenerateRecommendationsReordered(score, factors, slide_count) ==
    LET r1 == IF factors.visual_design < 850 THEN << <<"visual_design">> >> ELSE << >>
        r2 == IF factors.content_structure < 900 THEN << <<"structure">> >> ELSE << >>
        r3 == IF factors.clarity < 850 THEN << <<"clarity">> >> ELSE << >>
        r4 == IF slide_count < 15 THEN << <<"add_content", slide_count>> >>
              ELSE IF slide_count > 30 THEN << <<"optimize_length", slide_count>> >>
              ELSE << >>
        r5 == IF score < 75000 THEN << <<"explanations">> >> ELSE << >>
        r6 == IF factors.relevance < 900 THEN << <<"relevance">> >> ELSE << >>
        r7 == IF factors.completeness < 850 THEN << <<"completeness">> >> ELSE << >>
        recommendations == r1 \o r2 \o r3 \o r7 \o r4 \o r5 \o r6
    IN  IF recommendations # << >> THEN recommendations ELSE << <<"excellent">> >>

GenerateRecommendations(score, factors, slide_count) ==
    LET r1 == IF factors.visual_design < 850 THEN << <<"visual_design">> >> ELSE << >>
        r2 == IF factors.content_structure < 900 THEN << <<"structure">> >> ELSE << >>
        r3 == IF factors.clarity < 850 THEN << <<"clarity">> >> ELSE << >>
        r4 == IF slide_count < 15 THEN << <<"add_content", slide_count>> >>
              ELSE IF slide_count > 30 THEN << <<"optimize_length", slide_count>> >>
              ELSE << >>
        r5 == IF score < 75000 THEN << <<"explanations">> >> ELSE << >>
        r6 == IF factors.relevance < 900 THEN << <<"relevance">> >> ELSE << >>
        r7 == IF factors.completeness < 850 THEN << <<"completeness">> >> ELSE << >>
        recommendations == r1 \o r2 \o r3 \o r4 \o r5 \o r6 \o r7
    IN  IF recommendations # << >> THEN recommendations ELSE << <<"excellent">> >>

IdentifyStrengths(factors) ==
    LET s1 == IF factors.completeness > 900 THEN << <<"coverage">> >> ELSE << >>
        s2 == IF factors.content_structure > 900 THEN << <<"well_structured">> >> ELSE << >>
        s3 == IF factors.clarity > 900 THEN << <<"clear">> >> ELSE << >>
        s4 == IF factors.relevance > 900 THEN << <<"relevant">> >> ELSE << >>
        strengths == s1 \o s2 \o s3 \o s4
    IN  IF strengths # << >> THEN strengths ELSE << <<"good_overall">> >>

IdentifyWeaknesses(factors) ==
    LET w1 == IF factors.visual_design < 800 THEN << <<"visual_design">> >> ELSE << >>
        w2 == IF factors.content_structure < 850 THEN << <<"organization">> >> ELSE << >>
        w3 == IF factors.clarity < 800 THEN << <<"explanation">> >> ELSE << >>
    IN  w1 \o w2 \o w3

GetDetailedBreakdown(factors) ==
    [ content_quality  |-> Round1(factors.completeness * 100),
      structure_score  |-> Round1(factors.content_structure * 100),
      design_score     |-> Round1(factors.visual_design * 100),
      clarity_score    |-> Round1(factors.clarity * 100),
      relevance_score  |-> Round1(factors.relevance * 100),
      filename_quality |-> Round1(factors.filename_quality * 100) ]

GenerateAiInsights(filename, score, slide_count) ==
    LET i1 == IF score >= 90000 THEN << <<"outstanding">> >>
              ELSE IF score >= 80000 THEN << <<"strong">> >>
              ELSE IF score >= 70000 THEN << <<"good_foundation">> >>
              ELSE << <<"potential">> >>
        i2 == IF slide_count > 0
              THEN IF 15 <= slide_count /\ slide_count <= 25
                   THEN << <<"optimal_count", slide_count>> >>
                   ELSE IF slide_count < 15 THEN << <<"expand">> >>
                   ELSE << <<"lengthy", slide_count>> >>
              ELSE << >>
    IN  i1 \o i2

\* evaluate_ppt on a non-empty filename
EvaluatePpt(filename, slide_count, department, draw) ==
    LET factors == Factors(filename, slide_count, department, draw)
        final_score == ClampScore(WeightedScore(factors))
    IN  [ score              |-> Round1(final_score),
          factors            |-> [k \in DOMAIN factors |-> Round1(factors[k] * 100)],
          recommendations    |-> GenerateRecommendations(final_score, factors, slide_count),
          strengths          |-> IdentifyStrengths(factors),
          weaknesses         |-> IdentifyWeaknesses(factors),
          detailed_breakdown |-> GetDetailedBreakdown(factors),
          ai_insights        |-> GenerateAiInsights(filename, final_score, slide_count) ]

(***************************************************************************)
(* Database and init_sample_data.                                          *)
(***************************************************************************)
\* the six records of init_sample_data; score is in tenths (92.3 is 923)
SamplePresentations ==
    <<
      [ id |-> <<"1">>,
        fileName |-> "AI_Machine_Learning_Presentation.pptx",
        studentName |-> "Rahul Kumar",
        rollNumber |-> "21CS001",
        department |-> "CSE", slideCount |-> 24, status |-> "approved", score |-> 923,
        uploadDate |-> "11/8/2025 at 10:30 AM",
        filePath |-> <<"/uploads/">> \o <<"1">> \o <<".pptx">> ],
      [ id |-> <<"2">>,
        fileName |-> "Power_Systems_Analysis.pptx",
        studentName |-> "Priya Sharma",
        rollNumber |-> "21EE015",
        department |-> "EEE", slideCount |-> 18, status |-> "pending", score |-> 855,
        uploadDate |-> "11/8/2025 at 09:15 AM",
        filePath |-> <<"/uploads/">> \o <<"2">> \o <<".pptx">> ],
      [ id |-> <<"3">>,
        fileName |-> "Thermodynamics_Project.pptx",
        studentName |-> "Amit Patel",
        rollNumber |-> "21ME023",
        department |-> "MECH", slideCount |-> 20, status |-> "late", score |-> 782,
        uploadDate |-> "11/7/2025 at 04:45 PM",
        filePath |-> <<"/uploads/">> \o <<"3">> \o <<".pptx">> ],
      [ id |-> <<"4">>,
        fileName |-> "Database_Management_Systems.pptx",
        studentName |-> "Sneha Reddy",
        rollNumber |-> "21CS045",
        department |-> "CSE", slideCount |-> 22, status |-> "approved", score |-> 887,
        uploadDate |-> "11/7/2025 at 02:20 PM",
        filePath |-> <<"/uploads/">> \o <<"4">> \o <<".pptx">> ],
      [ id |-> <<"5">>,
        fileName |-> "Structural_Engineering.pptx",
        studentName |-> "Vikram Singh",
        rollNumber |-> "21CE012",
        department |-> "CIVIL", slideCount |-> 16, status |-> "pending", score |-> 821,
        uploadDate |-> "11/7/2025 at 11:30 AM",
        filePath |-> <<"/uploads/">> \o <<"5">> \o <<".pptx">> ],
      [ id |-> <<"6">>,
        fileName |-> "Quantum_Physics_Research.pptx",
        studentName |-> "Anjali Gupta",
        rollNumber |-> "21PH008",
        department |-> "PHYSICS", slideCount |-> 28, status |-> "approved", score |-> 945,
        uploadDate |-> "11/6/2025 at 03:15 PM",
        filePath |-> <<"/uploads/">> \o <<"6">> \o <<".pptx">> ]
    >>

\* dict.update / {**a, **b}
DictUpdate(p, updates) ==
    [k \in DOMAIN p \cup DOMAIN updates |-> IF k \in DOMAIN updates THEN updates[k] ELSE p[k]]

\* dict.get(key, default)
DictGet(d, key, default) == IF key \in DOMAIN d THEN d[key] ELSE default

\* variant: the record inserted at the head of the list
AddPresentationFront(list, presentation) == <<presentation>> \o list

\* Database.add_presentation: the list after the append
AddPresentation(list, presentation) == Append(list, presentation)

\* index of the first record whose id is presentation_id, 0 when there is none
FindIndex(list, presentation_id) ==
    IF \E i \in DOMAIN list : list[i].id = presentation_id
    THEN CHOOSE i \in DOMAIN list :
            /\ list[i].id = presentation_id
            /\ \A j \in 1..(i - 1) : list[j].id # presentation_id
    ELSE 0

\* variant: the record replaced by the updates instead of merged with them
UpdatePresentationReplace(list, presentation_id, updates) ==
    LET i == FindIndex(list, presentation_id)
    IN  IF i = 0 THEN list
        ELSE [list EXCEPT ![i] = updates]

\* variant: the id test left out of the loop, every record updated
UpdatePresentationAll(list, presentation_id, updates) ==
    LET i == FindIndex(list, presentation_id)
    IN  IF i = 0 THEN list
        ELSE [j \in DOMAIN list |-> DictUpdate(list[j], updates)]

\* variant: an update without a rejectionReason clears the one the record carries
UpdatePresentationClearing(list, presentation_id, updates) ==
    LET i == FindIndex(list, presentation_id)
        merged == DictUpdate(list[i], updates)
    IN  IF i = 0 THEN list
        ELSE IF "rejectionReason" \in DOMAIN updates
        THEN [list EXCEPT ![i] = merged]
        ELSE [list EXCEPT ![i] = [k \in DOMAIN merged \ {"rejectionReason"} |-> merged[k]]]

\* Database.update_presentation: the list after the call
UpdatePresentation(list, presentation_id, updates) ==
    LET i == FindIndex(list, presentation_id)
    IN  IF i = 0 THEN list
        ELSE [list EXCEPT ![i] = DictUpdate(list[i], updates)]

\* Database.get_presentation: the first record with that id, or None
None == [py_none |-> TRUE]

GetPresentation(list, presentation_id) ==
    LET i == FindIndex(list, presentation_id)
    IN  IF i = 0 THEN None ELSE list[i]

\* json.dump of the whole state
SaveData(list) == [exists |-> TRUE, presentations |-> list]

RECURSIVE AddAll(_, _)
AddAll(list, ps) ==
    IF ps = << >> THEN list
    ELSE AddAll(AddPresentation(list, Head(ps)), Tail(ps))

(***************************************************************************)
(* Request handlers, each as the function from the store and the request   *)
(* to the store, the response and the calls made.                          *)
(***************************************************************************)
Response(code, body) == [code |-> code, body |-> body]

NotFound == Response(404, [error |-> "Not found"])

\* an exception escaping the handler
Raised(exc) == Response(500, [raised |-> exc])

RequiredFields == <<"fileName", "studentName", "rollNumber", "department">>

\* variant: the id taken from the count, not the count plus one
NewPresentationLen(list, data, now) ==
    [ id          |-> IntToStr(Len(list)),
      fileName    |-> data["fileName"],
      studentName |-> data["studentName"],
      rollNumber  |-> data["rollNumber"],
      department  |-> data["department"],
      slideCount  |-> DictGet(data, "slideCount", 0),
      status      |-> "pending",
      score       |-> 0,
      uploadDate  |-> now,
      filePath    |-> <<"/uploads/">> \o IntToStr(Len(list) + 1) \o <<".pptx">> ]

\* the dict literal of upload_presentation
NewPresentation(list, data, now) ==
    [ id          |-> IntToStr(Len(list) + 1),
      fileName    |-> data["fileName"],
      studentName |-> data["studentName"],
      rollNumber  |-> data["rollNumber"],
      department  |-> data["department"],
      slideCount  |-> DictGet(data, "slideCount", 0),
      status      |-> "pending",
      score       |-> 0,
      uploadDate  |-> now,
      filePath    |-> <<"/uploads/">> \o IntToStr(Len(list) + 1) \o <<".pptx">> ]

\* variant: the record appended before the evaluator runs
UploadHandlerAddFirst(list, file, data, draw, now) ==
    IF \E i \in DOMAIN RequiredFields : RequiredFields[i] \notin DOMAIN data
    THEN [ list |-> list, file |-> file, resp |-> Raised("KeyError"), calls |-> << >> ]
    ELSE LET early == AddPresentation(list, NewPresentation(list, data, now))
         IN  IF EvaluateRaises(data["fileName"])
             THEN [ list |-> early, file |-> SaveData(early), resp |-> Raised("IndexError"),
                    calls |-> <<"add_presentation", "evaluate_ppt">> ]
             ELSE LET analysis == EvaluatePpt(data["fileName"], DictGet(data, "slideCount", 0),
                                              DictGet(data, "department", ""), draw)
                      new_presentation ==
                          DictUpdate(NewPresentation(list, data, now),
                                     [score |-> analysis.score, analysis |-> analysis])
                      added == AddPresentation(list, new_presentation)
                  IN  [ list  |-> added,
                        file  |-> SaveData(added),
                        resp  |-> Response(200, [success |-> TRUE,
                                                 presentation |-> new_presentation]),
                        calls |-> <<"add_presentation", "evaluate_ppt">> ]

UploadHandler(list, file, data, draw, now) ==
    IF \E i \in DOMAIN RequiredFields : RequiredFields[i] \notin DOMAIN data
    THEN [ list |-> list, file |-> file, resp |-> Raised("KeyError"), calls |-> << >> ]
    ELSE IF EvaluateRaises(data["fileName"])
    THEN [ list |-> list, file |-> file, resp |-> Raised("IndexError"),
           calls |-> <<"evaluate_ppt">> ]
    ELSE LET analysis == EvaluatePpt(data["fileName"], DictGet(data, "slideCount", 0),
                                     DictGet(data, "department", ""), draw)
             new_presentation ==
                 DictUpdate(NewPresentation(list, data, now),
                            [score |-> analysis.score, analysis |-> analysis])
             added == AddPresentation(list, new_presentation)
         IN  [ list  |-> added,
               file  |-> SaveData(added),
               resp  |-> Response(200, [success |-> TRUE, presentation |-> new_presentation]),
               calls |-> <<"evaluate_ppt", "add_presentation">> ]

\* approve_presentation and reject_presentation: db.update_presentation and the reply
UpdateHandler(list, file, presentation_id, updates) ==
    LET updated == UpdatePresentation(list, presentation_id, updates)
        i == FindIndex(list, presentation_id)
    IN  IF i = 0
        THEN [ list |-> updated, file |-> file, resp |-> NotFound,
               calls |-> <<"update_presentation">> ]
        ELSE [ list |-> updated, file |-> SaveData(updated),
               resp |-> Response(200, [success |-> TRUE, presentation |-> updated[i]]),
               calls |-> <<"update_presentation">> ]

\* variant: the fresh analysis and its score written back to the record
AnalyzeHandlerStoring(list, file, presentation_id, draw) ==
    LET presentation == GetPresentation(list, presentation_id)
        analysis == EvaluatePpt(presentation.fileName,
                                DictGet(presentation, "slideCount", 0),
                                DictGet(presentation, "department", ""), draw)
        updated == UpdatePresentation(list, presentation_id,
                                      [score |-> analysis.score, analysis |-> analysis])
    IN  IF presentation = None
        THEN [ list |-> list, file |-> file, resp |-> NotFound,
               calls |-> <<"get_presentation">> ]
        ELSE [ list |-> updated, file |-> SaveData(updated),
               resp |-> Response(200, analysis),
               calls |-> <<"get_presentation", "evaluate_ppt", "update_presentation">> ]

\* analyze_presentation_staff and analyze_presentation_student
AnalyzeHandler(list, file, presentation_id, draw) ==
    LET presentation == GetPresentation(list, presentation_id)
    IN  IF presentation = None
        THEN [ list |-> list, file |-> file, resp |-> NotFound,
               calls |-> <<"get_presentation">> ]
        ELSE [ list |-> list, file |-> file,
               resp |-> Response(200, EvaluatePpt(presentation.fileName,
                                                  DictGet(presentation, "slideCount", 0),
                                                  DictGet(presentation, "department", ""),
                                                  draw)),
               calls |-> <<"get_presentation", "evaluate_ppt">> ]

\* get_staff_presentation: the record with a fresh analysis merged into the reply
DetailHandler(list, file, presentation_id, draw) ==
    LET presentation == GetPresentation(list, presentation_id)
    IN  IF presentation = None
        THEN [ list |-> list, file |-> file, resp |-> NotFound,
               calls |-> <<"get_presentation">> ]
        ELSE [ list |-> list, file |-> file,
               resp |-> Response(200,
                           DictUpdate(presentation,
                                      [analysis |-> EvaluatePpt(presentation.fileName,
                                                       DictGet(presentation, "slideCount", 0),
                                                       DictGet(presentation, "department", ""),
                                                       draw)])),
               calls |-> <<"get_presentation", "evaluate_ppt">> ]

\* get_student_presentation
GetHandler(list, file, presentation_id) ==
    LET presentation == GetPresentation(list, presentation_id)
    IN  [ list |-> list, file |-> file,
          resp |-> IF presentation = None THEN NotFound ELSE Response(200, presentation),
          calls |-> <<"get_presentation">> ]

\* variant: the 'All' sentinel treated as a department name
StaffFilterNoSentinel(list, search, department, status, min_score, max_score) ==
    LET BySearch(p) == \/ StrContains(search, StrLower(Chars[p.studentName]))
                       \/ StrContains(search, StrLower(Chars[p.rollNumber]))
        ByDepartment(p) == p.department = department
        ByStatus(p) == p.status = status
        ByScore(p) == min_score <= p.score /\ p.score <= max_score
        f0 == list
        f1 == IF search # << >> THEN SelectSeq(f0, BySearch) ELSE f0
        f2 == IF department # "" THEN SelectSeq(f1, ByDepartment) ELSE f1
        f3 == IF status # "" THEN SelectSeq(f2, ByStatus) ELSE f2
    IN  SelectSeq(f3, ByScore)

\* variant: the score range applied only when no status is given
StaffFilterElif(list, search, department, status, min_score, max_score) ==
    LET BySearch(p) == \/ StrContains(search, StrLower(Chars[p.studentName]))
                       \/ StrContains(search, StrLower(Chars[p.rollNumber]))
        ByDepartment(p) == p.department = department
        ByStatus(p) == p.status = status
        ByScore(p) == min_score <= p.score /\ p.score <= max_score
        f0 == list
        f1 == IF search # << >> THEN SelectSeq(f0, BySearch) ELSE f0
        f2 == IF department # "" /\ department # "All" THEN SelectSeq(f1, ByDepartment) ELSE f1
    IN  IF status # "" THEN SelectSeq(f2, ByStatus) ELSE SelectSeq(f2, ByScore)

\* the filtering of get_staff_presentations; search arrives lower-cased
StaffFilter(list, search, department, status, min_score, max_score) ==
    LET BySearch(p) == \/ StrContains(search, StrLower(Chars[p.studentName]))
                       \/ StrContains(search, StrLower(Chars[p.rollNumber]))
        ByDepartment(p) == p.department = department
        ByStatus(p) == p.status = status
        ByScore(p) == min_score <= p.score /\ p.score <= max_score
        f0 == list
        f1 == IF search # << >> THEN SelectSeq(f0, BySearch) ELSE f0
        f2 == IF department # "" /\ department # "All" THEN SelectSeq(f1, ByDepartment) ELSE f1
        f3 == IF status # "" THEN SelectSeq(f2, ByStatus) ELSE f2
    IN  SelectSeq(f3, ByScore)

\* get_staff_presentations
FilterHandler(list, file, args) ==
    [ list |-> list, file |-> file,
      resp |-> Response(200, StaffFilter(list,
                                         StrLower(Chars[DictGet(args, "search", "")]),
                                         DictGet(args, "department", ""),
                                         DictGet(args, "status", ""),
                                         DictGet(args, "min_score", 0),
                                         DictGet(args, "max_score", 1000))),
      calls |-> <<"get_presentations">> ]

CountStatus(list, status) == Cardinality({i \in DOMAIN list : list[i].status = status})

\* get_staff_stats
StatsHandler(list, file) ==
    [ list |-> list, file |-> file,
      resp |-> Response(200, [ total    |-> Len(list),
                               pending  |-> CountStatus(list, "pending"),
                               approved |-> CountStatus(list, "approved"),
                               rejected |-> CountStatus(list, "rejected") ]),
      calls |-> <<"get_presentations">> ]

(***************************************************************************)
(* Inputs of the requests.                                                 *)
(***************************************************************************)
EmptyDict == [k \in {} |-> ""]

Without(d, key) == [k \in DOMAIN d \ {key} |-> d[k]]

\* request bodies of /api/student/upload: two complete ones, one with an empty
\* fileName, and ones lacking a required key
CompleteUploads ==
    { [ fileName |-> "notes.ppt", studentName |-> "Rahul Kumar", rollNumber |-> "21CS001",
        department |-> "CSE", slideCount |-> 12 ],
      [ fileName |-> "Final-Report2024", studentName |-> "Meera Rahul",
        rollNumber |-> "21cs077", department |-> "All" ] }

UploadData ==
    CompleteUploads
    \cup { [d EXCEPT !["fileName"] = ""] : d \in { x \in CompleteUploads : "slideCount" \in DOMAIN x } }
    \cup { Without(d, k) : d \in { x \in CompleteUploads : "slideCount" \in DOMAIN x },
                           k \in Range(RequiredFields) }

\* np.random.uniform(0, 0.1), in thousandths: values of [0, 100)
UploadDraws == {50}

AnalysisDraws == {0, 99}

UploadDates == {"11/02/2026 at 09:00 AM"}

StaffIds == { <<"3">>, <<"7">>, <<"9","9","9">> }

RejectData == { [reason |-> "Incomplete slides"], EmptyDict }

QueryArgs ==
    { EmptyDict,
      [search |-> "RAHUL"],
      [department |-> "All"],
      [department |-> "CSE", status |-> "approved"],
      [status |-> "pending", min_score |-> 800, max_score |-> 900] }

NoResponse == Response(0, [none |-> TRUE])

(***************************************************************************)
(* The program: module import, then one request at a time.                 *)
(***************************************************************************)
Init ==
    /\ presentations = << >>
    /\ data_file = [exists |-> FALSE, presentations |-> << >>]
    /\ req = [op |-> "Database"]
    /\ resp = NoResponse
    /\ calls = << >>

Booted == req.op # "Database"

Apply(outs) ==
    \E out \in outs :
        /\ presentations' = out.list
        /\ data_file' = out.file
        /\ resp' = out.resp
        /\ calls' = out.calls

InitSampleData ==
    /\ req.op = "Database"
    /\ req' = [op |-> "init_sample_data"]
    /\ resp' = NoResponse
    /\ IF Len(presentations) = 0
       THEN LET added == AddAll(presentations, SamplePresentations)
            IN  /\ presentations' = added
                /\ data_file' = SaveData(added)
                /\ calls' = [i \in DOMAIN SamplePresentations |-> "add_presentation"]
       ELSE /\ UNCHANGED <<presentations, data_file>>
            /\ calls' = << >>

UploadPresentation ==
    /\ Booted
    /\ Len(presentations) < Len(SamplePresentations) + MaxUploads
    /\ \E data \in UploadData, draw \in UploadDraws, now \in UploadDates :
          /\ req' = [op |-> "upload_presentation", data |-> data, draw |-> draw, now |-> now]
          /\ Apply({UploadHandler(presentations, data_file, data, draw, now)})

ApprovePresentation ==
    /\ Booted
    /\ \E id \in StaffIds :
          /\ req' = [op |-> "approve_presentation", presentation_id |-> id]
          /\ Apply({UpdateHandler(presentations, data_file, id, [status |-> "approved"])})

RejectPresentation ==
    /\ Booted
    /\ \E id \in StaffIds, data \in RejectData :
          /\ req' = [op |-> "reject_presentation", presentation_id |-> id, data |-> data]
          /\ Apply({UpdateHandler(presentations, data_file, id,
                                 [status |-> "rejected",
                                  rejectionReason |-> DictGet(data, "reason", "")])})

AnalyzePresentationStaff ==
    /\ Booted
    /\ \E id \in StaffIds, draw \in AnalysisDraws :
          /\ req' = [op |-> "analyze_presentation_staff", presentation_id |-> id, draw |-> draw]
          /\ Apply({AnalyzeHandler(presentations, data_file, id, draw)})

AnalyzePresentationStudent ==
    /\ Booted
    /\ \E id \in StaffIds, draw \in AnalysisDraws :
          /\ req' = [op |-> "analyze_presentation_student", presentation_id |-> id, draw |-> draw]
          /\ Apply({AnalyzeHandler(presentations, data_file, id, draw)})

GetStaffPresentation ==
    /\ Booted
    /\ \E id \in StaffIds, draw \in AnalysisDraws :
          /\ req' = [op |-> "get_staff_presentation", presentation_id |-> id, draw |-> draw]
          /\ Apply({DetailHandler(presentations, data_file, id, draw)})

GetStudentPresentation ==
    /\ Booted
    /\ \E id \in StaffIds :
          /\ req' = [op |-> "get_student_presentation", presentation_id |-> id]
          /\ Apply({GetHandler(presentations, data_file, id)})

GetStaffPresentations ==
    /\ Booted
    /\ \E args \in QueryArgs :
          /\ req' = [op |-> "get_staff_presentations", args |-> args]
          /\ Apply({FilterHandler(presentations, data_file, args)})

GetStaffStats ==
    /\ Booted
    /\ req' = [op |-> "get_staff_stats"]
    /\ Apply({StatsHandler(presentations, data_file)})

Next ==
    \/ InitSampleData
    \/ UploadPresentation
    \/ ApprovePresentation
    \/ RejectPresentation
    \/ AnalyzePresentationStaff
    \/ AnalyzePresentationStudent
    \/ GetStaffPresentation
    \/ GetStudentPresentation
    \/ GetStaffPresentations
    \/ GetStaffStats

Spec == Init /\ [][Next]_vars

(***************************************************************************)
(* The evaluator alone: evaluate_ppt applied to drawn inputs.              *)
(***************************************************************************)
EvalFileNames ==
    { "", "AI_Machine_Learning_Presentation.pptx", "Power_Systems_Analysis.pptx",
      "Thermodynamics_Project.pptx", "Database_Management_Systems.pptx",
      "Structural_Engineering.pptx", "Quantum_Physics_Research.pptx", "notes.ppt",
      "Final-Report2024", "Deck1", "my_visual_design_talk",
      "Annual_Departmental_Research_Symposium_Final_Presentation_v2.pptx" }

EvalSlideCounts == {0, 1, 4, 5, 9, 10, 14, 15, 20, 25, 26, 30, 31, 40, 41}

EvalDepartments == {"", "CSE"}

EvalDraws == {0, 22, 49, 50, 81, 99}

\* one call per behaviour: evaluate_ppt on its own, or the upload that runs it and
\* stores the result (on the store init_sample_data leaves)
InitEval ==
    /\ \E f \in EvalFileNames, n \in EvalSlideCounts, d \in EvalDepartments, u \in EvalDraws :
          \/ /\ req = [op |-> "evaluate_ppt", filename |-> f, slide_count |-> n,
                       department |-> d, draw |-> u]
             /\ presentations = << >>
             /\ data_file = [exists |-> FALSE, presentations |-> << >>]
          \/ /\ req = [op |-> "upload_presentation",
                       data |-> [fileName |-> f, studentName |-> "Rahul Kumar",
                                 rollNumber |-> "21CS001", department |-> d,
                                 slideCount |-> n],
                       draw |-> u, now |-> "11/02/2026 at 09:00 AM"]
             /\ presentations = AddAll(<< >>, SamplePresentations)
             /\ data_file = SaveData(presentations)
    /\ resp = NoResponse
    /\ calls = << >>

EvaluateCall ==
    /\ req.op = "evaluate_ppt"
    /\ resp = NoResponse
    /\ resp' = IF EvaluateRaises(req.filename)
               THEN Raised("IndexError")
               ELSE Response(200, EvaluatePpt(req.filename, req.slide_count,
                                              req.department, req.draw))
    /\ calls' = <<"evaluate_ppt">>
    /\ UNCHANGED <<presentations, data_file, req>>

UploadCall ==
    /\ req.op = "upload_presentation"
    /\ resp = NoResponse
    /\ Apply({UploadHandler(presentations, data_file, req.data, req.draw, req.now)})
    /\ UNCHANGED req

NextEval == EvaluateCall \/ UploadCall

SpecEval == InitEval /\ [][NextEval]_vars

(***************************************************************************)
(* The staff filter alone: get_staff_presentations on drawn stores.        *)
(***************************************************************************)
FilterUploads ==
    << [ fileName |-> "Deck1", studentName |-> "Rahul Dev", rollNumber |-> "22ME101",
         department |-> "cse", slideCount |-> 20 ],
       [ fileName |-> "Final-Report2024", studentName |-> "Meera Rahul",
         rollNumber |-> "21cs077", department |-> "All" ],
       [ fileName |-> "notes.ppt", studentName |-> "Rahul Kumar", rollNumber |-> "21CS001",
         department |-> "CSE", slideCount |-> 12 ] >>

\* the store after init_sample_data and k uploads
RECURSIVE Uploaded(_)
Uploaded(k) ==
    IF k = 0 THEN AddAll(<< >>, SamplePresentations)
    ELSE LET before == Uploaded(k - 1)
         IN  UploadHandler(before, SaveData(before),
                           FilterUploads[((k - 1) % Len(FilterUploads)) + 1],
                           50, "11/02/2026 at 09:00 AM").list

\* and after the reviews of one staff session
Reviewed(list, session) ==
    IF session = "approve"
    THEN UpdatePresentation(list, <<"2">>, [status |-> "approved"])
    ELSE IF session = "reject"
    THEN UpdatePresentation(UpdatePresentation(list, <<"7">>,
                                [status |-> "rejected", rejectionReason |-> ""]),
                            <<"1">>, [status |-> "rejected", rejectionReason |-> "late"])
    ELSE list

FilterStores ==
    { Reviewed(Uploaded(k), session) : k \in 0..MaxPool, session \in {"none", "approve", "reject"} }

FilterArgs ==
    { DictUpdate(DictUpdate(a, b), DictUpdate(c, d)) :
        a \in { EmptyDict, [search |-> ""], [search |-> "RAHUL"], [search |-> "21cs"],
                [search |-> "xyz"] },
        b \in { EmptyDict, [department |-> "All"], [department |-> "CSE"],
                [department |-> "cse"] },
        c \in { EmptyDict, [status |-> "pending"], [status |-> "approved"],
                [status |-> "rejected"] },
        d \in { EmptyDict, [min_score |-> 800, max_score |-> 900], [min_score |-> 855],
                [min_score |-> 900, max_score |-> 800] } }

InitFilter ==
    /\ presentations \in FilterStores
    /\ data_file = SaveData(presentations)
    /\ req = [op |-> "init_sample_data"]
    /\ resp = NoResponse
    /\ calls = << >>

\* one request per drawn store
GetStaffPresentationsAny ==
    /\ Booted
    /\ resp = NoResponse
    /\ \E args \in FilterArgs :
          /\ req' = [op |-> "get_staff_presentations", args |-> args]
          /\ Apply({FilterHandler(presentations, data_file, args)})

NextFilter == GetStaffPresentationsAny

SpecFilter == InitFilter /\ [][NextFilter]_vars

(***************************************************************************)
(* Properties.                                                             *)
(***************************************************************************)
EvalWeighted == WeightedScore(Factors(req.filename, req.slide_count, req.department, req.draw))

Evaluated == req.op = "evaluate_ppt" /\ resp.code = 200

\* C1: for a non-empty fileName, any slideCount, department and relevance draw, the
\* score evaluate_ppt returns lies in [60, 98]; it is 98 whenever the weighted sum
\* times 100 exceeds 98, and 60 whenever it is below 60.
C1_ScoreInBand ==
    Evaluated =>
        /\ 600 <= resp.body.score /\ resp.body.score <= 980
        /\ (EvalWeighted > 98000 => resp.body.score = 980)
        /\ (EvalWeighted < 60000 => resp.body.score = 600)

C1_Witness == Evaluated /\ EvalWeighted > 98000 /\ resp.body.score = 980

Filtered == req.op = "get_staff_presentations" /\ resp.code = 200

ArgSearch == StrLower(Chars[DictGet(req.args, "search", "")])

ArgDepartment == DictGet(req.args, "department", "")

ArgStatus == DictGet(req.args, "status", "")

ArgMin == DictGet(req.args, "min_score", 0)

ArgMax == DictGet(req.args, "max_score", 1000)

\* the four predicates of the filter, as the specification states them
Selected(p) ==
    /\ \/ ArgSearch = << >>
       \/ StrContains(ArgSearch, StrLower(Chars[p.studentName]))
       \/ StrContains(ArgSearch, StrLower(Chars[p.rollNumber]))
    /\ ArgDepartment \in {"", "All"} \/ p.department = ArgDepartment
    /\ ArgStatus = "" \/ p.status = ArgStatus
    /\ ArgMin <= p.score /\ p.score <= ArgMax

SelectedButDepartment(p) ==
    /\ \/ ArgSearch = << >>
       \/ StrContains(ArgSearch, StrLower(Chars[p.studentName]))
       \/ StrContains(ArgSearch, StrLower(Chars[p.rollNumber]))
    /\ ArgStatus = "" \/ p.status = ArgStatus
    /\ ArgMin <= p.score /\ p.score <= ArgMax

\* C9: the staff filter returns exactly the stored submissions, in their order, that
\* satisfy the search, department, status and score-range predicates together; with
\* department 'All' no record is removed on account of its department.
C9_FilterExact ==
    Filtered =>
        /\ resp.body = SelectSeq(presentations, Selected)
        /\ ArgDepartment = "All" => resp.body = SelectSeq(presentations, SelectedButDepartment)

C9_Witness ==
    /\ Filtered
    /\ ArgSearch = <<"r","a","h","u","l">>
    /\ ArgDepartment = "All"
    /\ Len(resp.body) >= 2
    /\ Len(resp.body) < Len(presentations)
    /\ \E i \in DOMAIN resp.body : resp.body[i].department # "All"

ByDepartmentStatus(list) == StaffFilter(list, << >>, ArgDepartment, ArgStatus, 0, 1000)

ByScoreRange(list) == StaffFilter(list, << >>, "", "", ArgMin, ArgMax)

Combined == StaffFilter(presentations, << >>, ArgDepartment, ArgStatus, ArgMin, ArgMax)

\* C10: filtering by (department, status) and then by the score range gives the same
\* set of submissions as filtering by the score range and then by (department,
\* status), and both give the set of the single combined filter call.
C10_OrderIndependent ==
    Filtered =>
        /\ Range(ByScoreRange(ByDepartmentStatus(presentations))) = Range(Combined)
        /\ Range(ByDepartmentStatus(ByScoreRange(presentations))) = Range(Combined)
        /\ ArgSearch = << >> => resp.body = Combined

C10_Witness ==
    /\ Filtered
    /\ ArgSearch = << >>
    /\ ArgDepartment = "CSE"
    /\ ArgStatus = "approved"
    /\ Combined # << >>
    /\ Len(Combined) < Len(ByDepartmentStatus(presentations))
    /\ Len(Combined) < Len(ByScoreRange(presentations))

(***************************************************************************)
(* Properties of the store and its handlers.                               *)
(***************************************************************************)
Uploading == req'.op = "upload_presentation"

UploadedOk == req.op = "upload_presentation" /\ resp.code = 200

Count == Len(presentations)

\* the decimal numerals
Numerals ==
    << <<"1">>, <<"2">>, <<"3">>, <<"4">>, <<"5">>, <<"6">>, <<"7">>, <<"8">>, <<"9">>,
       <<"1","0">>, <<"1","1">>, <<"1","2">> >>

DistinctIds ==
    \A i, j \in DOMAIN presentations : i # j => presentations[i].id # presentations[j].id

UploadAssignsNext ==
    (Uploading /\ resp'.code = 200) =>
        /\ Len(presentations') = Count + 1
        /\ presentations'[Count + 1].id = Numerals[Count + 1]
        /\ resp'.body.presentation.id = Numerals[Count + 1]

IdsStable ==
    \A i \in DOMAIN presentations :
        i \in DOMAIN presentations' /\ presentations'[i].id = presentations[i].id

\* C2: from the store init_sample_data leaves, after any sequence of uploads, approvals
\* and rejections the stored ids are pairwise distinct, each upload assigns the id
\* str(count+1), count being the number of records stored just before it, and an id
\* once assigned never changes.
C2_IdsUniqueSequentialStable ==
    []DistinctIds /\ [][UploadAssignsNext /\ IdsStable]_vars

C2_Witness ==
    /\ UploadedOk
    /\ Count = Len(SamplePresentations) + 1
    /\ presentations[Count].id = <<"7">>

Approving == req'.op = "approve_presentation"

Holds(list, id) == \E i \in DOMAIN list : list[i].id = id

\* C3: approving an id that is stored returns that record with status 'approved' and
\* every other field as it was, and changes no other stored record; approving an id
\* that is not stored returns NotFound and leaves the store as it was.
C3_ApproveFrame ==
    [][ Approving =>
          IF Holds(presentations, req'.presentation_id)
          THEN LET i == CHOOSE k \in DOMAIN presentations :
                            presentations[k].id = req'.presentation_id
                   old == presentations[i]
                   new == resp'.body.presentation
               IN  /\ resp'.code = 200
                   /\ new.status = "approved"
                   /\ DOMAIN new = DOMAIN old
                   /\ \A k \in DOMAIN old \ {"status"} : new[k] = old[k]
                   /\ DOMAIN presentations' = DOMAIN presentations
                   /\ presentations'[i] = new
                   /\ \A j \in DOMAIN presentations \ {i} : presentations'[j] = presentations[j]
          ELSE /\ resp'.code = 404
               /\ presentations' = presentations
               /\ data_file' = data_file ]_vars

C3_Witness ==
    /\ req.op = "approve_presentation"
    /\ req.presentation_id = <<"7">>
    /\ resp.code = 200
    /\ resp.body.presentation.status = "approved"
    /\ "rejectionReason" \in DOMAIN resp.body.presentation

\* C4: an add followed immediately by a get of the added record's id returns a record
\* equal to the added one on all fields.
C4_AddThenGet ==
    /\ [](UploadedOk =>
            GetPresentation(presentations, resp.body.presentation.id) = resp.body.presentation)
    /\ [](req.op = "init_sample_data" =>
            \A i \in DOMAIN SamplePresentations :
                GetPresentation(presentations, SamplePresentations[i].id)
                    = SamplePresentations[i])
    /\ [][ ( /\ UploadedOk
             /\ req'.op = "get_student_presentation"
             /\ req'.presentation_id = resp.body.presentation.id )
           => resp' = Response(200, resp.body.presentation) ]_vars

C4_Witness ==
    /\ UploadedOk
    /\ "analysis" \in DOMAIN resp.body.presentation
    /\ GetPresentation(presentations, <<"7">>) = resp.body.presentation

Statuses == {"pending", "approved", "rejected", "late"}

StatusChangeOnlyByReview ==
    \A i \in DOMAIN presentations :
        (i \in DOMAIN presentations' /\ presentations'[i].status # presentations[i].status)
            => /\ req'.op \in {"approve_presentation", "reject_presentation"}
               /\ req'.presentation_id = presentations[i].id

\* C5: every stored status is one of pending, approved, rejected, late; an uploaded
\* submission is 'pending' right after its upload; a status changes only in a step
\* that approves or rejects that submission's id.
C5_StatusLifecycle ==
    /\ [](\A i \in DOMAIN presentations : presentations[i].status \in Statuses)
    /\ [](UploadedOk => presentations[Count].status = "pending")
    /\ [][StatusChangeOnlyByReview]_vars

C5_Witness ==
    /\ req.op = "approve_presentation"
    /\ req.presentation_id = <<"3">>
    /\ resp.code = 200
    /\ presentations[3].status = "approved"
    /\ Count > Len(SamplePresentations)
    /\ presentations[Count].status = "pending"

\* C6: no submission is ever removed and the list keeps insertion order: the ids of
\* an earlier state are a prefix of the ids of every later state.
C6_AppendOnly ==
    [][ /\ Len(presentations') >= Count
        /\ \A i \in DOMAIN presentations : presentations'[i].id = presentations[i].id ]_vars

C6_Witness ==
    /\ req.op = "reject_presentation"
    /\ resp.code = 200
    /\ Count = Len(SamplePresentations) + 1
    /\ presentations[Count].id = <<"7">>

AnalyzeOps ==
    {"analyze_presentation_staff", "analyze_presentation_student", "get_staff_presentation"}

\* the bundle an analyze request or the staff detail view returned
Returned == IF req.op = "get_staff_presentation" THEN resp.body.analysis ELSE resp.body

\* C7, as claimed: after an analyze operation the analysis bundle and the score stored
\* on the submission are those of that evaluation, the most recent for it.
C7_StoredIsMostRecent ==
    (req.op \in AnalyzeOps /\ resp.code = 200) =>
        LET p == GetPresentation(presentations, req.presentation_id)
        IN  /\ "analysis" \in DOMAIN p
            /\ p.analysis = Returned
            /\ p.score = Returned.score

StoredAtUpload ==
    (Uploading /\ resp'.code = 200) =>
        LET p == presentations'[Len(presentations')]
            bundle == EvaluatePpt(req'.data["fileName"], DictGet(req'.data, "slideCount", 0),
                                  req'.data["department"], req'.draw)
        IN  /\ p.analysis = bundle
            /\ p.score = bundle.score

EvaluationKept ==
    \A i \in DOMAIN presentations :
        /\ presentations'[i].score = presentations[i].score
        /\ ("analysis" \in DOMAIN presentations'[i]) = ("analysis" \in DOMAIN presentations[i])
        /\ "analysis" \in DOMAIN presentations[i]
              => presentations'[i].analysis = presentations[i].analysis

\* C7, amended: the analysis bundle and the score stored on an uploaded submission are
\* those of the evaluation made at its upload; no later operation, an analyze
\* request or the staff detail view included, changes the stored bundle or score.
C7_StoredIsUploadEvaluation ==
    [][StoredAtUpload /\ EvaluationKept]_vars

C7_Witness ==
    /\ req.op = "analyze_presentation_staff"
    /\ req.presentation_id = <<"7">>
    /\ resp.code = 200
    /\ presentations[7].analysis # resp.body
    /\ presentations[7].score # resp.body.score

MissingField(data) == \E i \in DOMAIN RequiredFields : RequiredFields[i] \notin DOMAIN data

\* C8: an upload that ends in an error leaves the collection as it was; when a
\* required field is absent it fails before the evaluator is invoked, and when
\* fileName is empty the evaluator faults before the record is appended.
C8_FailedUploadNoEffect ==
    [][ Uploading =>
          /\ resp'.code # 200 => (presentations' = presentations /\ data_file' = data_file)
          /\ MissingField(req'.data) =>
                /\ resp' = Raised("KeyError")
                /\ "evaluate_ppt" \notin Range(calls')
          /\ (~MissingField(req'.data) /\ req'.data["fileName"] = "") =>
                /\ resp' = Raised("IndexError")
                /\ "evaluate_ppt" \in Range(calls')
                /\ "add_presentation" \notin Range(calls') ]_vars

C8_Witness ==
    /\ req.op = "upload_presentation"
    /\ resp = Raised("IndexError")
    /\ presentations = SamplePresentations


EvalFactors == Factors(req.filename, req.slide_count, req.department, req.draw)

\* the bands of the slide-count factor, in thousandths
SlideBand(n) ==
    IF n \in 15..25 THEN 1000
    ELSE IF n \in 10..14 \/ n \in 26..30 THEN 900
    ELSE IF n \in 5..9 \/ n \in 31..40 THEN 800
    ELSE 700

\* C11: for a slideCount of 0 or more the slide_count_optimization factor is 1.0 in
\* [15,25], 0.9 in [10,15) and (25,30], 0.8 in [5,10) and (30,40], and 0.7 otherwise
\* (0 included); the bundle reports it times 100, and reports the same value for
\* completeness (100.0 for both at slideCount 20).
C11_SlideCountBands ==
    (Evaluated /\ req.slide_count >= 0) =>
        /\ EvalFactors.slide_count_optimization = SlideBand(req.slide_count)
        /\ resp.body.factors.slide_count_optimization = SlideBand(req.slide_count)
        /\ resp.body.factors.completeness = resp.body.factors.slide_count_optimization
        /\ resp.body.detailed_breakdown.content_quality = SlideBand(req.slide_count)

C11_Witness ==
    /\ Evaluated
    /\ req.slide_count = 20
    /\ resp.body.factors.slide_count_optimization = 1000
    /\ resp.body.factors.completeness = 1000

\* C12 as stated: slideCount 0 gives a slide_count_optimization of 0.7 (70.0 in the
\* bundle), and slideCount 1 gives a result different from that.
C12_ZeroDistinctFromOne ==
    Evaluated =>
        /\ req.slide_count = 0 => resp.body.factors.slide_count_optimization = 700
        /\ req.slide_count = 1 => resp.body.factors.slide_count_optimization # 700

\* C12, amended: slideCount 0 gives a slide_count_optimization of 0.7 (70.0 in the
\* bundle), and slideCount 1 gives the same 0.7.
C12_ZeroSameAsOne ==
    Evaluated =>
        /\ req.slide_count = 0 => resp.body.factors.slide_count_optimization = 700
        /\ req.slide_count = 1 => resp.body.factors.slide_count_optimization = 700

C12_Witness ==
    /\ Evaluated
    /\ req.slide_count = 0
    /\ resp.body.factors.slide_count_optimization = 700
    /\ Len(resp.body.ai_insights) = 1

\* the conditions of the recommendations, in their fixed order
RecommendationOrder ==
    << "visual_design", "structure", "clarity", "add_content", "optimize_length",
       "explanations", "relevance", "completeness" >>

RecommendationDue(kind) ==
    LET f == EvalFactors
        final_score == Max2(60000, Min2(98000, EvalWeighted))
    IN  CASE kind = "visual_design"   -> f.visual_design < 850
          [] kind = "structure"       -> f.content_structure < 900
          [] kind = "clarity"         -> f.clarity < 850
          [] kind = "add_content"     -> req.slide_count < 15
          [] kind = "optimize_length" -> ~(req.slide_count < 15) /\ req.slide_count > 30
          [] kind = "explanations"    -> final_score < 75000
          [] kind = "relevance"       -> f.relevance < 900
          [] kind = "completeness"    -> f.completeness < 850

RecommendationKinds == [i \in DOMAIN resp.body.recommendations |-> resp.body.recommendations[i][1]]

\* C13: the recommendations are never empty; they hold one message for each condition
\* that holds, in the order visual_design<0.85, content_structure<0.90, clarity<0.85,
\* slideCount<15 or else slideCount>30, finalScore<75, relevance<0.90,
\* completeness<0.85, the slide-count messages carrying the count; never both
\* slide-count messages; and exactly the one fallback message iff no condition holds.
C13_RecommendationsOrdered ==
    Evaluated =>
        LET recs == resp.body.recommendations
            due == SelectSeq(RecommendationOrder, RecommendationDue)
        IN  /\ Len(recs) >= 1
            /\ due # << >> => RecommendationKinds = due
            /\ (recs = << <<"excellent">> >>) <=> (due = << >>)
            /\ \A i \in DOMAIN recs :
                  recs[i][1] \in {"add_content", "optimize_length"}
                      => recs[i] = <<recs[i][1], req.slide_count>>
            /\ ~(\E i, j \in DOMAIN recs :
                    recs[i][1] = "add_content" /\ recs[j][1] = "optimize_length")

C13_Witness ==
    /\ Evaluated
    /\ Len(resp.body.recommendations) >= 4
    /\ \E i \in DOMAIN resp.body.recommendations :
          /\ resp.body.recommendations[i] = <<"optimize_length", req.slide_count>>
          /\ i < Len(resp.body.recommendations)
          /\ resp.body.recommendations[i + 1] = <<"relevance">>

C13_FallbackWitness == Evaluated /\ resp.body.recommendations = << <<"excellent">> >>


UploadWeighted ==
    WeightedScore(Factors(req.data["fileName"], req.data["slideCount"],
                          req.data["department"], req.draw))

\* a bundle whose score fell under 75 or under 70 would carry these
LowScoreMarks(bundle) ==
    \/ \E i \in DOMAIN bundle.recommendations : bundle.recommendations[i] = <<"explanations">>
    \/ \E i \in DOMAIN bundle.ai_insights : bundle.ai_insights[i] = <<"potential">>

\* C14: for a non-empty fileName, any slideCount and any relevance draw, the weighted
\* sum times 100 is at least 76.5, so the lower clamp at 60 changes nothing, the
\* finalScore<75 recommendation and the below-70 insight never appear, and the score
\* an upload stores is at least 76.5.
C14_LowerClampIdle ==
    /\ Evaluated =>
          /\ EvalWeighted >= 76500
          /\ resp.body.score = Round1(Min2(98000, EvalWeighted))
          /\ resp.body.score >= 765
          /\ ~LowScoreMarks(resp.body)
    /\ UploadedOk =>
          /\ UploadWeighted >= 76500
          /\ presentations[Count].score = Round1(Min2(98000, UploadWeighted))
          /\ presentations[Count].score >= 765
          /\ ~LowScoreMarks(presentations[Count].analysis)

C14_Witness ==
    /\ UploadedOk
    /\ UploadWeighted = 76500
    /\ presentations[Count].score = 765
    /\ presentations[Count].analysis.ai_insights[1] = <<"good_foundation">>


Rejecting == req'.op = "reject_presentation"

HasReason(p) == "rejectionReason" \in DOMAIN p

\* a rejectionReason, once stored, stays, and only a reject of that id rewrites it
ReasonKept ==
    \A i \in DOMAIN presentations :
        HasReason(presentations[i]) =>
            /\ HasReason(presentations'[i])
            /\ presentations'[i].rejectionReason # presentations[i].rejectionReason
                  => (Rejecting /\ req'.presentation_id = presentations[i].id)

\* approve and reject act on a stored id whatever its status is
ReviewAccepted ==
    (Approving \/ Rejecting) /\ Holds(presentations, req'.presentation_id) =>
        LET i == CHOOSE k \in DOMAIN presentations :
                     presentations[k].id = req'.presentation_id
        IN  /\ presentations[i].status \in Statuses
            /\ resp'.code = 200
            /\ Approving =>
                  /\ presentations'[i].status = "approved"
                  /\ HasReason(presentations'[i]) = HasReason(presentations[i])
            /\ Rejecting =>
                  /\ presentations'[i].status = "rejected"
                  /\ HasReason(presentations'[i])
                  /\ presentations'[i].rejectionReason = DictGet(req'.data, "reason", "")

\* C15: approve never removes a rejectionReason: once a reject has stored one on a
\* submission it stays, holding the last reject's reason, so an approve after a
\* reject leaves status 'approved' with the reason still there; approve and reject
\* are accepted from every status (pending, approved, rejected, late).
C15_ReasonSurvivesApprove == [][ReasonKept /\ ReviewAccepted]_vars

C15_Witness ==
    /\ req.op = "approve_presentation"
    /\ req.presentation_id = <<"3">>
    /\ resp.code = 200
    /\ presentations[3].status = "approved"
    /\ HasReason(presentations[3])
    /\ presentations[3].rejectionReason = "Incomplete slides"

====
